---- MODULE Spec2Model ----
(***************************************************************************)
(* Crane monitor: the event ledger, the audit log, the parts workflow and  *)
(* the inventory store of app.py, with the analysis gateway of             *)
(* gemini_integration.py.  The SQLite tables are sequences in insertion    *)
(* (rowid) order.  In Spec, SpecSim, SpecGateway and SpecList every        *)
(* request handler and every pass of the simulator is one atomic action;  *)
(* SpecConc runs approve_part and the simulator's pass step by step on     *)
(* their threads.                                                          *)
(*                                                                         *)
(* Conventions: an optional value (a JSON key that may be absent, a Python *)
(* None) is the sequence <<>> or <<v>>; a dict is a function from its keys; *)
(* readings are integers in the unit of their rounding (vibration in       *)
(* tenths, 4.5 mm/s is 45; brake health and motor hours in hundredths;     *)
(* wear fractions in 1e-5); the id 0 is a NULL event_id.  datetime.now()   *)
(* is the variable now, which only the action ClockAdvance moves.          *)
(***************************************************************************)
EXTENDS Integers, Sequences, FiniteSets, TLC

VARIABLES events, audit_log, audit_seq, part_requests, stock,
          telemetry, component_wear, history, ticks, uuid_next, resp,
          now, thr, dblock, sim_pc

\* the state of the request threads in flight, of the database write lock
\* and of the simulator thread inside one pass
concVars == <<thr, dblock, sim_pc>>

vars == <<events, audit_log, audit_seq, part_requests, stock,
          telemetry, component_wear, history, ticks, uuid_next, resp,
          now, thr, dblock, sim_pc>>

\* ---------------------------------------------------------------- bounds
MaxEvents == 2
MaxRequests == 2
MaxAudit == 3
MaxTicks == 1
MaxClockSteps == 2
MaxListOps == 2
NumThreads == 2
MaxSimTicks == 3
LateTicks == 20000
MaxConcApproves == 2

\* ------------------------------------------------------ program constants
HistoryCap == 50
RestockQty == 5
VibrationThreshold == 40
DefaultUrgency == 1
SeverityDivisor == 10
MockWarningUrgency == 5
MockOptimalUrgency == 1
WearCap == 100000
EventsLimit == 20
AuditLimit == 50

\* ------------------------------------------------------------ input sets
NoId == 0
UnknownId == 0 - 1

None == <<>>
Some(v) == <<v>>

TrackedParts == {"Main Bearing (B-54)", "Hoist Motor", "Hydraulic Filter"}
PartArgs == {"Hydraulic Filter", "Brake Pad"}
NotesArgs == {None, Some("Replaced bearing")}
DecisionArgs == {None, Some("STOP")}
ChecksArgs == {<<"Torque check", "Final safety check">>}
ActionArgs == {Some("Resolved Issue")}
VibDraws == {45}

\* A request body of POST analyze: absent/empty, or a snapshot mapping.
BodyArgs == {None, Some([vibration_mm_s |-> 45, temperature_c |-> 600])}

\* dict.update / item assignment: b's keys are added to a or overwrite a's
DictUpdate(a, b) ==
    [k \in DOMAIN a \cup DOMAIN b |-> IF k \in DOMAIN b THEN b[k] ELSE a[k]]

Min(a, b) == IF a <= b THEN a ELSE b
Max(a, b) == IF a >= b THEN a ELSE b

\* the range random.uniform draws each stateless channel from, after round()
ChannelRange ==
    [vibration_mm_s |-> <<5, 50>>,
     temperature_c |-> <<200, 950>>,
     motor_current_a |-> <<100, 600>>,
     oil_pressure_bar |-> <<480, 520>>,
     gearbox_oil_temp_c |-> <<400, 600>>,
     hydraulic_pressure_bar |-> <<1150, 1250>>,
     voltage_imbalance_pct |-> <<0, 150>>]
StatelessChannels == DOMAIN ChannelRange

\* SensorSimulator.__init__
InitTelemetry ==
    [vibration_mm_s |-> 0,
     temperature_c |-> 0,
     load_cycles |-> 10000,
     motor_current_a |-> 0,
     brake_health_pct |-> 9850,
     motor_hours |-> 124050,
     oil_pressure_bar |-> 500,
     gearbox_oil_temp_c |-> 450,
     hydraulic_pressure_bar |-> 1200,
     voltage_imbalance_pct |-> 50]
InitWear == [main_bearing |-> 5000, hoist_motor |-> 12000, cable_tension |-> 2000]

\* The random numbers of one pass of the simulator loop: the seven uniform
\* draws after rounding, load = int(random() > 0.8), brake = random() * 0.01
\* in 1e-4 percent (0..99), the two wear increments in 1e-5 (0..9, 0..4).
LoDraw ==
    [k \in StatelessChannels |-> ChannelRange[k][1]] @@
    [load |-> 0, brake |-> 0, main_bearing |-> 0, hoist_motor |-> 0]
HiDraw ==
    [k \in StatelessChannels |-> ChannelRange[k][2]] @@
    [load |-> 1, brake |-> 99, main_bearing |-> 9, hoist_motor |-> 4]
MidDraw(v) ==
    [vibration_mm_s |-> v, temperature_c |-> 600, motor_current_a |-> 350,
     oil_pressure_bar |-> 500, gearbox_oil_temp_c |-> 500,
     hydraulic_pressure_bar |-> 1200, voltage_imbalance_pct |-> 75,
     load |-> 0, brake |-> 60, main_bearing |-> 5, hoist_motor |-> 2]
SpecDraws == {MidDraw(v) : v \in VibDraws}
SimDraws == {LoDraw, HiDraw} \cup SpecDraws

\* What the analysis engine does with one call: it is unavailable (no API
\* key, the call raises, the text is not JSON), or its text parses to a JSON
\* value, an object with optional type and urgency_score or something else.
JInt(n) == [tag |-> "int", v |-> n]
JStr == [tag |-> "str", v |-> 0]
JObject(t, u) == [kind |-> "object", type |-> t, urgency_score |-> u]
EngineOutcomes ==
    {[kind |-> "unavailable"],
     [kind |-> "json", value |-> JObject(Some("Critical"), Some(JInt(9)))],
     [kind |-> "json", value |-> JObject(None, None)],
     [kind |-> "json", value |-> JObject(Some("Warning"), Some(JStr))],
     [kind |-> "json", value |-> [kind |-> "array"]]}

\* ------------------------------------------------------------- helpers
RECURSIVE GCD(_, _)
GCD(a, b) == IF b = 0 THEN a ELSE GCD(b, a % b)

\* urgency / 10.0, as a fraction in lowest terms
Severity(u) ==
    LET g == GCD(u, SeverityDivisor)
    IN  [num |-> u \div g, den |-> SeverityDivisor \div g]

\* the model stops taking writes when a table has grown by its bound, from
\* an empty table or from one a single row short of its listing limit
AuditRoom ==
    \/ Len(audit_log) < MaxAudit
    \/ /\ Len(audit_log) >= AuditLimit - 1
       /\ Len(audit_log) < AuditLimit - 1 + MaxListOps
EventRoom ==
    \/ Len(events) < MaxEvents
    \/ /\ Len(events) >= EventsLimit - 1
       /\ Len(events) < EventsLimit - 1 + MaxListOps

\* the request threads, and a thread that is handling no request
Threads == 1..NumThreads
IdleThread ==
    [pc |-> "idle", req_id |-> 0, part_name |-> "", read |-> 0, ok |-> 0,
     failed |-> 0]

EventIds == {events[i].id : i \in 1..Len(events)}
RequestIds == {part_requests[i].id : i \in 1..Len(part_requests)}
\* ids a caller names: those of the rows that exist, and one matching no row
EventIdArgs == EventIds \cup {UnknownId}
RequestIdArgs == RequestIds \cup {UnknownId}

\* mutant: the sequence counter is not advanced, so ids repeat
AuditInsert_StaleSeq(role, action, event_id, details) ==
    /\ audit_log' = Append(audit_log,
                       [id |-> audit_seq + 1, timestamp |-> now, role |-> role,
                        action |-> action, event_id |-> event_id,
                        details |-> details])
    /\ audit_seq' = audit_seq

\* a row of audit_log
AuditRow(id, ts, role, action, event_id, details) ==
    [id |-> id, timestamp |-> ts, role |-> role, action |-> action,
     event_id |-> event_id, details |-> details]

\* INSERT INTO audit_log: AUTOINCREMENT takes the next sequence id
AuditInsert(role, action, event_id, details) ==
    /\ audit_log' = Append(audit_log, AuditRow(audit_seq + 1, now, role, action,
                                               event_id, details))
    /\ audit_seq' = audit_seq + 1

\* mutant: the count is assigned, not incremented
UpdateStock_Assigns(part_name, change) ==
    IF part_name \in DOMAIN stock
    THEN [stock EXCEPT ![part_name] = change]
    ELSE stock

\* mutant: no membership test, an unknown part gets a count
UpdateStock_Creates(part_name, change) ==
    [p \in DOMAIN stock \cup {part_name} |->
        IF p = part_name
        THEN (IF p \in DOMAIN stock THEN stock[p] ELSE 0) + change
        ELSE stock[p]]

\* mutant: the change is taken off the count
UpdateStock_Subtracts(part_name, change) ==
    IF part_name \in DOMAIN stock
    THEN [stock EXCEPT ![part_name] = @ - change]
    ELSE stock

\* InventoryManager.update_stock: the stock after the call
UpdateStock(part_name, change) ==
    IF part_name \in DOMAIN stock
    THEN [stock EXCEPT ![part_name] = @ + change]
    ELSE stock

\* dict.get(part_name) on the stock mapping
StockGet(s, part_name) ==
    IF part_name \in DOMAIN s THEN Some(s[part_name]) ELSE None

\* mutant: the threshold is inclusive
MockResponse_Inclusive(data) ==
    LET vib == IF "vibration_mm_s" \in DOMAIN data THEN data.vibration_mm_s ELSE 0
    IN  [kind |-> "object",
         type |-> Some(IF vib >= VibrationThreshold THEN "Warning" ELSE "Optimal"),
         urgency_score |-> Some(JInt(IF vib >= VibrationThreshold
                                     THEN MockWarningUrgency
                                     ELSE MockOptimalUrgency)),
         prescription |-> "mock"]

\* PrescriptiveEngine._mock_response
MockResponse(data) ==
    LET vib == IF "vibration_mm_s" \in DOMAIN data THEN data.vibration_mm_s ELSE 0
    IN  [kind |-> "object",
         type |-> Some(IF vib > VibrationThreshold THEN "Warning" ELSE "Optimal"),
         urgency_score |-> Some(JInt(IF vib > VibrationThreshold
                                     THEN MockWarningUrgency
                                     ELSE MockOptimalUrgency)),
         prescription |-> "mock"]

\* PrescriptiveEngine.analyze_telemetry
AnalyzeTelemetry(data, eng) ==
    IF eng.kind = "unavailable"
    THEN MockResponse(data)
    ELSE IF eng.value.kind = "object"
         THEN [kind |-> "object", type |-> eng.value.type,
               urgency_score |-> eng.value.urgency_score,
               prescription |-> "engine"]
         ELSE [kind |-> eng.value.kind]

\* ------------------------------------------------------------------ Init
InitTables ==
    /\ events = <<>>
    /\ audit_log = <<>>
    /\ audit_seq = 0
    /\ part_requests = <<>>
    /\ uuid_next = 1

InitStock ==
    [p \in TrackedParts |->
        CASE p = "Main Bearing (B-54)" -> 1
          [] p = "Hoist Motor" -> 2
          [] p = "Hydraulic Filter" -> 12]
InitInventory == stock = InitStock

InitSimulator ==
    /\ telemetry = InitTelemetry
    /\ component_wear = InitWear
    /\ history = <<>>
    /\ ticks = 0

InitThreads ==
    /\ thr = [t \in Threads |-> IdleThread]
    /\ dblock = 0
    /\ sim_pc = "idle"

Init ==
    /\ InitTables
    /\ InitInventory
    /\ InitSimulator
    /\ InitThreads
    /\ resp = [op |-> "start"]
    /\ now = 0

\* --------------------------------------------------------------- actions

\* time passes: the next datetime.now() is later than the last
ClockAdvance ==
    /\ now < AuditLimit - 1 + MaxClockSteps
    /\ now' = now + 1
    /\ resp' = [op |-> "clock"]
    /\ UNCHANGED <<events, audit_log, audit_seq, part_requests, stock, telemetry,
                   component_wear, history, ticks, uuid_next, concVars>>

\* mutant: the wear is not capped
WearStep_NoCap(w, inc) == w + inc

\* mutant: pop() for pop(0), the newest snapshot is dropped
Evict_PopsNewest(h) == IF Len(h) > HistoryCap THEN SubSeq(h, 1, Len(h) - 1) ELSE h

\* round(max(0, brake - random() * 0.01), 2), x = random() * 0.01 in 1e-4
BrakeStep(b, x) == (Max(0, b * 100 - x) + 50) \div 100

\* min(1.0, wear + increment)
WearStep(w, inc) == Min(WearCap, w + inc)

\* the readings after the assignments of one pass
NextTelemetry(d) ==
    [k \in DOMAIN telemetry |->
        CASE k \in StatelessChannels -> d[k]
          [] k = "load_cycles" -> telemetry[k] + d.load
          [] k = "brake_health_pct" -> BrakeStep(telemetry[k], d.brake)
          [] k = "motor_hours" -> telemetry[k] + 1
          [] OTHER -> telemetry[k]]

NextWear(d) ==
    [component_wear EXCEPT !.main_bearing = WearStep(@, d.main_bearing),
                           !.hoist_motor = WearStep(@, d.hoist_motor)]

\* snapshot = telemetry.copy(); update(component_wear); snapshot["timestamp"]
SnapshotAt(t, w, ts) == DictUpdate(DictUpdate(t, w), [timestamp |-> ts])
Snapshot(t, w) == SnapshotAt(t, w, now)

\* if len(self.history) > 50: self.history.pop(0)
Evict(h) == IF Len(h) > HistoryCap THEN Tail(h) ELSE h

\* SensorSimulator.generate_data, one pass of the loop
TickBody(d) ==
    /\ telemetry' = NextTelemetry(d)
    /\ component_wear' = NextWear(d)
    /\ history' = Evict(Append(history, Snapshot(NextTelemetry(d), NextWear(d))))
    /\ ticks' = ticks + 1
    /\ resp' = [op |-> "tick"]
    /\ UNCHANGED <<events, audit_log, audit_seq, part_requests, stock, uuid_next, now>>

Tick ==
    /\ ticks < MaxTicks
    /\ AuditRoom
    /\ \E d \in SpecDraws : TickBody(d)
    /\ UNCHANGED concVars

\* the event row analyze builds from the data and the analysis (an object)
EventRow(event_id, ts, data, analysis) ==
    LET urgency == IF analysis.urgency_score = None THEN JInt(DefaultUrgency)
                   ELSE analysis.urgency_score[1]
    IN  [id |-> event_id,
         timestamp |-> ts,
         component_id |-> "CRANE-01",
         type |-> IF analysis.type = None THEN "Info" ELSE analysis.type[1],
         severity |-> Severity(urgency.v),
         urgency_score |-> urgency.v,
         raw_telemetry |-> data,
         prescription |-> analysis.prescription,
         status |-> "active",
         resolution_notes |-> "",
         owner_decision |-> None]
NewEvent(event_id, data, analysis) == EventRow(event_id, now, data, analysis)

\* data = request.json; if not data: data = sensor_sim.telemetry, with the
\* timestamp assigned: the readings of the simulator after that assignment
AnalyzeTelemetryAfter(body) ==
    IF body = None THEN DictUpdate(telemetry, [timestamp |-> now]) ELSE telemetry

\* POST /api/analyze
AnalyzeCall(body, eng) ==
    LET data == IF body = None THEN AnalyzeTelemetryAfter(body) ELSE body[1]
        analysis == AnalyzeTelemetry(data, eng)
        event == NewEvent(uuid_next, data, analysis)
    IN  /\ AuditRoom
        /\ telemetry' = AnalyzeTelemetryAfter(body)
        /\ IF analysis.kind # "object"
           THEN \* analysis.get raises AttributeError
                /\ resp' = [op |-> "analyze", code |-> 500, engine |-> eng.kind]
                /\ UNCHANGED <<events, audit_log, audit_seq, uuid_next>>
           ELSE IF analysis.urgency_score # None /\ analysis.urgency_score[1].tag # "int"
           THEN \* urgency_score / 10.0 raises TypeError
                /\ resp' = [op |-> "analyze", code |-> 500, engine |-> eng.kind]
                /\ UNCHANGED <<events, audit_log, audit_seq, uuid_next>>
           ELSE /\ EventRoom
                /\ uuid_next' = uuid_next + 1
                /\ events' = Append(events, event)
                /\ AuditInsert("Technician", "Ran Diagnostic Scan", event.id,
                               <<"Detected", event.type>>)
                /\ resp' = [op |-> "analyze", code |-> 201, event |-> event,
                            engine |-> eng.kind]
        /\ UNCHANGED <<part_requests, stock, component_wear, history, ticks, now>>

Analyze ==
    /\ \E body \in BodyArgs, eng \in EngineOutcomes : AnalyzeCall(body, eng)
    /\ UNCHANGED concVars

\* ------------------------------------------------ the simulator on its own

\* The simulator after k passes whose draws were all the lowest ones, from
\* brake health b, load count l and wear w: the readings, and the history.
SeedTelemetry(k, b, l) ==
    IF k = 0 THEN InitTelemetry
    ELSE [j \in DOMAIN InitTelemetry |->
            CASE j \in StatelessChannels -> ChannelRange[j][1]
              [] j = "load_cycles" -> l
              [] j = "brake_health_pct" -> b
              [] j = "motor_hours" -> InitTelemetry.motor_hours + k]
SeedHistory(k, b, l, w) ==
    [i \in 1..Min(k, HistoryCap) |->
        SnapshotAt(SeedTelemetry(k - Min(k, HistoryCap) + i, b, l), w, 0)]

\* where a run of the simulator is picked up: at construction, one pass
\* before the history is full, and late, when brake and bearing are worn out
SimStarts ==
    {[ticks |-> 0, brake |-> InitTelemetry.brake_health_pct,
      load |-> InitTelemetry.load_cycles, wear |-> InitWear],
     [ticks |-> HistoryCap - 1, brake |-> InitTelemetry.brake_health_pct,
      load |-> InitTelemetry.load_cycles, wear |-> InitWear],
     [ticks |-> LateTicks, brake |-> 1, load |-> InitTelemetry.load_cycles + 4000,
      wear |-> [main_bearing |-> WearCap - 5, hoist_motor |-> 50000,
                cable_tension |-> InitWear.cable_tension]]}

InitSim ==
    /\ InitTables
    /\ InitInventory
    /\ InitThreads
    /\ resp = [op |-> "start"]
    /\ now = 0
    /\ \E st \in SimStarts :
         /\ ticks = st.ticks
         /\ telemetry = SeedTelemetry(st.ticks, st.brake, st.load)
         /\ component_wear = st.wear
         /\ history = SeedHistory(st.ticks, st.brake, st.load, st.wear)

SimTick ==
    /\ \E st \in SimStarts : ticks >= st.ticks /\ ticks < st.ticks + MaxSimTicks
    /\ \E d \in SimDraws : TickBody(d)
    /\ UNCHANGED concVars

\* GET /api/telemetry
GetTelemetry ==
    /\ resp' = [op |-> "telemetry", code |-> 200,
                data |-> DictUpdate(telemetry, component_wear)]
    /\ UNCHANGED <<events, audit_log, audit_seq, part_requests, stock, telemetry,
                   component_wear, history, ticks, uuid_next, now, concVars>>

\* GET /api/history
GetHistory ==
    /\ resp' = [op |-> "history", code |-> 200, items |-> history]
    /\ UNCHANGED <<events, audit_log, audit_seq, part_requests, stock, telemetry,
                   component_wear, history, ticks, uuid_next, now, concVars>>

NextSim ==
    \/ SimTick
    \/ GetTelemetry
    \/ GetHistory

SpecSim == InitSim /\ [][NextSim]_vars

\* ------------------------------------------ the gateway and its fallback

\* snapshots a caller submits: vibration above, at and below 4.0, and absent
GatewayBodies ==
    {None,
     Some([vibration_mm_s |-> 45, temperature_c |-> 600]),
     Some([vibration_mm_s |-> 40, temperature_c |-> 600]),
     Some([vibration_mm_s |-> 39, temperature_c |-> 600]),
     Some([temperature_c |-> 600])}

\* the engine is unavailable or fails, or it answers with a diagnosis
GatewayEngines ==
    {[kind |-> "unavailable"],
     [kind |-> "json", value |-> JObject(Some("Critical"), Some(JInt(9)))]}

GatewayAnalyze ==
    /\ \E body \in GatewayBodies, eng \in GatewayEngines : AnalyzeCall(body, eng)
    /\ UNCHANGED concVars

NextGateway ==
    \/ Tick
    \/ GatewayAnalyze

SpecGateway == Init /\ [][NextGateway]_vars

\* mutant: the update skips an event that is already resolved
ResolveUpdate_OnlyActive(event_id, notes) ==
    [i \in 1..Len(events) |->
        IF events[i].id = event_id /\ events[i].status = "active"
        THEN [events[i] EXCEPT !.status = "resolved", !.resolution_notes = notes]
        ELSE events[i]]

\* mutant: the update has lost its WHERE clause
ResolveUpdate_AllRows(event_id, notes) ==
    [i \in 1..Len(events) |->
        [events[i] EXCEPT !.status = "resolved", !.resolution_notes = notes]]

\* UPDATE events SET status = ?, resolution_notes = ? WHERE id = ?
ResolveUpdate(event_id, notes) ==
    [i \in 1..Len(events) |->
        IF events[i].id = event_id
        THEN [events[i] EXCEPT !.status = "resolved", !.resolution_notes = notes]
        ELSE events[i]]

\* POST /api/events/<event_id>/resolve
ResolveCall(event_id, notesArg) ==
    LET notes == IF notesArg = None THEN "Resolved via Dashboard" ELSE notesArg[1]
    IN  /\ AuditRoom
        /\ events' = ResolveUpdate(event_id, notes)
        /\ AuditInsert("Technician", "Resolved Issue", event_id, notes)
        /\ resp' = [op |-> "resolve", code |-> 200, event_id |-> event_id,
                    notes |-> notes]
        /\ UNCHANGED <<part_requests, stock, telemetry, component_wear, history,
                       ticks, uuid_next, now>>

ResolveEvent ==
    /\ \E id \in EventIdArgs, n \in NotesArgs : ResolveCall(id, n)
    /\ UNCHANGED concVars

\* POST /api/verify_fix
VerifyCall(event_id, checks) ==
    /\ AuditRoom
    /\ AuditInsert("Technician", "Protocol Verification", event_id,
                   <<"Verified", checks>>)
    /\ resp' = [op |-> "verify_fix", code |-> 200, event_id |-> event_id]
    /\ UNCHANGED <<events, part_requests, stock, telemetry, component_wear, history,
                   ticks, uuid_next, now>>

VerifyFix ==
    /\ \E id \in EventIdArgs, c \in ChecksArgs : VerifyCall(id, c)
    /\ UNCHANGED concVars

\* mutant: recording a decision reopens the event
DecisionUpdate_Reopens(event_id, decision) ==
    [i \in 1..Len(events) |->
        IF events[i].id = event_id
        THEN [events[i] EXCEPT !.owner_decision = Some(decision), !.status = "active"]
        ELSE events[i]]

\* mutant: a decision is stored only while none is recorded
DecisionUpdate_FirstWins(event_id, decision) ==
    [i \in 1..Len(events) |->
        IF events[i].id = event_id /\ events[i].owner_decision = None
        THEN [events[i] EXCEPT !.owner_decision = Some(decision)]
        ELSE events[i]]

\* UPDATE events SET owner_decision = ? WHERE id = ?
DecisionUpdate(event_id, decision) ==
    [i \in 1..Len(events) |->
        IF events[i].id = event_id
        THEN [events[i] EXCEPT !.owner_decision = Some(decision)]
        ELSE events[i]]

\* POST /api/decisions
DecisionCall(event_id, roleArg, decisionArg) ==
    LET role == IF roleArg = None THEN "Owner" ELSE roleArg[1]
        decision == IF decisionArg = None THEN "Unknown Decision" ELSE decisionArg[1]
    IN  /\ AuditRoom
        /\ AuditInsert(role, "Executive Decision", event_id, decision)
        /\ events' = DecisionUpdate(event_id, decision)
        /\ resp' = [op |-> "decisions", code |-> 200, event_id |-> event_id,
                    decision |-> decision]
        /\ UNCHANGED <<part_requests, stock, telemetry, component_wear, history,
                       ticks, uuid_next, now>>

LogDecision ==
    /\ \E id \in EventIdArgs, d \in DecisionArgs : DecisionCall(id, None, d)
    /\ UNCHANGED concVars

\* POST /api/log_action
LogActionCall(event_id, roleArg, actionArg, detailsArg) ==
    LET role == IF roleArg = None THEN "System" ELSE roleArg[1]
        action == IF actionArg = None THEN "Activity" ELSE actionArg[1]
        details == IF detailsArg = None THEN "" ELSE detailsArg[1]
    IN  /\ AuditRoom
        /\ AuditInsert(role, action, event_id, details)
        /\ resp' = [op |-> "log_action", code |-> 200, event_id |-> event_id]
        /\ UNCHANGED <<events, part_requests, stock, telemetry, component_wear, history,
                       ticks, uuid_next, now>>

LogAction ==
    /\ \E id \in EventIds \cup {NoId}, a \in ActionArgs :
         LogActionCall(id, None, a, None)
    /\ UNCHANGED concVars

\* POST /api/parts/request
RequestPartCall(part, roleArg) ==
    LET role == IF roleArg = None THEN "Maintenance Lead" ELSE roleArg[1]
        req_id == uuid_next
    IN  /\ Len(part_requests) < MaxRequests
        /\ AuditRoom
        /\ uuid_next' = uuid_next + 1
        /\ part_requests' = Append(part_requests,
                                [id |-> req_id, part_name |-> part,
                                 requester_role |-> role, status |-> "pending",
                                 timestamp |-> now])
        /\ AuditInsert(role, "Requested Part", req_id, <<"Requested restock", part>>)
        /\ resp' = [op |-> "request_part", code |-> 201, id |-> req_id]
        /\ UNCHANGED <<events, stock, telemetry, component_wear, history, ticks, now>>

RequestPart ==
    /\ \E p \in PartArgs : RequestPartCall(p, None)
    /\ UNCHANGED concVars

\* mutant: the update has lost its WHERE clause
ApproveUpdate_AllRows(req_id) ==
    [i \in 1..Len(part_requests) |->
        [part_requests[i] EXCEPT !.status = "approved"]]

\* UPDATE part_requests SET status = ? WHERE id = ?
ApproveUpdate(req_id) ==
    [i \in 1..Len(part_requests) |->
        IF part_requests[i].id = req_id
        THEN [part_requests[i] EXCEPT !.status = "approved"]
        ELSE part_requests[i]]

\* mutant: the query has lost its WHERE clause, fetchone() gives the first row
SelectRequest_AnyRow(req_id) ==
    IF part_requests = <<>> THEN None ELSE Some(part_requests[1])

\* SELECT * FROM part_requests WHERE id = ?, then fetchone()
SelectRequest(req_id) ==
    LET found == {i \in 1..Len(part_requests) : part_requests[i].id = req_id}
    IN  IF found = {} THEN None
        ELSE Some(part_requests[CHOOSE i \in found : \A j \in found : i <= j])

\* mutant: a request that is already approved is not restocked again
ApproveStock_Once(req) ==
    IF req.status = "approved" THEN stock ELSE UpdateStock(req.part_name, RestockQty)

\* the inventory after approve_part's restock of the request's part
ApproveStock(req) == UpdateStock(req.part_name, RestockQty)

\* POST /api/parts/approve/<req_id>
ApproveCall(req_id) ==
    LET sel == SelectRequest(req_id)
    IN  /\ AuditRoom
        /\ IF sel = None
           THEN /\ resp' = [op |-> "approve", code |-> 404, req_id |-> req_id]
                /\ UNCHANGED <<audit_log, audit_seq, part_requests, stock>>
           ELSE LET req == sel[1]
                    part_name == req.part_name
                IN  /\ part_requests' = ApproveUpdate(req_id)
                    /\ stock' = ApproveStock(req)
                    /\ AuditInsert("Owner", "Approved Purchase", req_id,
                                   <<"Approved order", part_name>>)
                    /\ resp' = [op |-> "approve", code |-> 200, req_id |-> req_id,
                                new_stock |-> StockGet(stock', part_name)]
        /\ UNCHANGED <<events, telemetry, component_wear, history, ticks, uuid_next, now>>

ApprovePart ==
    /\ \E id \in RequestIdArgs : ApproveCall(id)
    /\ UNCHANGED concVars

\* ------------------------------------------------------- the listings

\* ORDER BY timestamp DESC LIMIT limit over the rows at the indexes idx.
\* SQL leaves the order of rows with equal timestamps open: tie picks it.
TieOrders == {"oldest first", "newest first"}
Before(rows, i, j, tie) ==
    \/ rows[i].timestamp > rows[j].timestamp
    \/ /\ rows[i].timestamp = rows[j].timestamp
       /\ IF tie = "oldest first" THEN i < j ELSE i > j
Listing(rows, idx, limit, tie) ==
    LET scan == SelectSeq([i \in 1..Len(rows) |-> i], LAMBDA i : i \in idx)
        sorted == SortSeq(scan, LAMBDA i, j : Before(rows, i, j, tie))
    IN  [k \in 1..Min(limit, Len(sorted)) |-> rows[sorted[k]]]

\* request.args.get(...): no parameter, an empty one, or a value
StatusFilters == {None, Some(""), Some("active"), Some("resolved")}
RoleFilters == {None, Some(""), Some("Technician"), Some("Owner")}

\* `if status_filter:` an absent or an empty filter adds no WHERE clause
Selected(rows, f, column) ==
    {i \in 1..Len(rows) : (f = None \/ f[1] = "") \/ rows[i][column] = f[1]}

\* GET /api/events
GetEvents ==
    /\ \E f \in StatusFilters, tie \in TieOrders :
         resp' = [op |-> "events", code |-> 200, filter |-> f,
                  items |-> Listing(events, Selected(events, f, "status"),
                                    EventsLimit, tie)]
    /\ UNCHANGED <<events, audit_log, audit_seq, part_requests, stock, telemetry,
                   component_wear, history, ticks, uuid_next, now, concVars>>

\* GET /api/audit_log
GetAuditLog ==
    /\ \E f \in RoleFilters, tie \in TieOrders :
         resp' = [op |-> "audit_log", code |-> 200, filter |-> f,
                  items |-> Listing(audit_log, Selected(audit_log, f, "role"),
                                    AuditLimit, tie)]
    /\ UNCHANGED <<events, audit_log, audit_seq, part_requests, stock, telemetry,
                   component_wear, history, ticks, uuid_next, now, concVars>>

\* The tables after 19 analyze calls and 30 log_action calls, each at its
\* own clock reading: one row short of each listing's limit.
SeedBody == [vibration_mm_s |-> 45, temperature_c |-> 600]
InitList ==
    /\ events = [i \in 1..(EventsLimit - 1) |->
                    EventRow(i, i, SeedBody, MockResponse(SeedBody))]
    /\ audit_log = [j \in 1..(AuditLimit - 1) |->
                      IF j < EventsLimit
                      THEN AuditRow(j, j, "Technician", "Ran Diagnostic Scan", j,
                                    <<"Detected", "Warning">>)
                      ELSE AuditRow(j, j, IF j % 2 = 0 THEN "Owner" ELSE "System",
                                    "Activity", NoId, "")]
    /\ audit_seq = AuditLimit - 1
    /\ uuid_next = EventsLimit
    /\ part_requests = <<>>
    /\ now = AuditLimit - 1
    /\ InitInventory
    /\ InitSimulator
    /\ InitThreads
    /\ resp = [op |-> "start"]

ListAnalyze ==
    /\ AnalyzeCall(Some(SeedBody), [kind |-> "unavailable"])
    /\ UNCHANGED concVars

\* the oldest event is resolved
ListResolve ==
    /\ ResolveCall(1, None)
    /\ UNCHANGED concVars

NextList ==
    \/ ClockAdvance
    \/ ListAnalyze
    \/ ListResolve
    \/ GetEvents
    \/ GetAuditLog

SpecList == InitList /\ [][NextList]_vars

\* ------------------------------------------- request threads, simulator

\* calls answered with success, and calls taken up, by the threads of S
RECURSIVE OkCount(_)
OkCount(S) ==
    IF S = {} THEN 0
    ELSE LET t == CHOOSE x \in S : TRUE
         IN  thr[t].ok + OkCount(S \ {t})
RECURSIVE Started(_)
Started(S) ==
    IF S = {} THEN 0
    ELSE LET t == CHOOSE x \in S : TRUE
         IN  thr[t].ok + thr[t].failed
               + (IF thr[t].pc = "idle" THEN 0 ELSE 1) + Started(S \ {t})

\* the server after two requests for the same tracked part, with a full
\* history
ConcPart == "Hydraulic Filter"
InitConc ==
    /\ events = <<>>
    /\ part_requests = [i \in 1..2 |->
                          [id |-> i, part_name |-> ConcPart,
                           requester_role |-> "Maintenance Lead",
                           status |-> "pending", timestamp |-> 0]]
    /\ audit_log = [i \in 1..2 |->
                      AuditRow(i, 0, "Maintenance Lead", "Requested Part", i,
                               <<"Requested restock", ConcPart>>)]
    /\ audit_seq = 2
    /\ uuid_next = 3
    /\ InitInventory
    /\ ticks = HistoryCap
    /\ telemetry = SeedTelemetry(HistoryCap, InitTelemetry.brake_health_pct,
                                 InitTelemetry.load_cycles)
    /\ component_wear = InitWear
    /\ history = SeedHistory(HistoryCap, InitTelemetry.brake_health_pct,
                             InitTelemetry.load_cycles, InitWear)
    /\ InitThreads
    /\ resp = [op |-> "start"]
    /\ now = 0

\* mutant: the UPDATE does not wait for the database's write lock
BeginWrite_NoLock(t) == TRUE

\* the first write of a connection's transaction takes the database's write
\* lock, which one connection holds at a time, until its commit
BeginWrite(t) == dblock = 0

\* approve_part on thread t: the SELECT and the 404
ApproveSelect(t) ==
    /\ thr[t].pc = "idle"
    /\ Started(Threads) < MaxConcApproves
    /\ \E id \in RequestIds \cup {UnknownId} :
         LET sel == SelectRequest(id)
         IN  IF sel = None
             THEN /\ resp' = [op |-> "approve", code |-> 404, req_id |-> id]
                  /\ thr' = [thr EXCEPT ![t].failed = @ + 1]
             ELSE /\ thr' = [thr EXCEPT ![t].pc = "update", ![t].req_id = id,
                                        ![t].part_name = sel[1].part_name]
                  /\ UNCHANGED resp
    /\ UNCHANGED <<events, audit_log, audit_seq, part_requests, stock, telemetry,
                   component_wear, history, ticks, uuid_next, now, dblock,
                   sim_pc>>

\* the UPDATE opens the transaction
ApproveBegin(t) ==
    /\ thr[t].pc = "update"
    /\ BeginWrite(t)
    /\ dblock' = t
    /\ thr' = [thr EXCEPT ![t].pc = "stock_read"]
    /\ UNCHANGED <<events, audit_log, audit_seq, part_requests, stock, telemetry,
                   component_wear, history, ticks, uuid_next, now, resp,
                   sim_pc>>

\* the lock stayed taken for the connection's timeout: sqlite3 raises
\* OperationalError and the call is answered 500
ApproveBusy(t) ==
    /\ thr[t].pc = "update"
    /\ dblock \notin {0, t}
    /\ resp' = [op |-> "approve", code |-> 500, req_id |-> thr[t].req_id]
    /\ thr' = [thr EXCEPT ![t] = [IdleThread EXCEPT !.ok = thr[t].ok,
                                                     !.failed = thr[t].failed + 1]]
    /\ UNCHANGED <<events, audit_log, audit_seq, part_requests, stock, telemetry,
                   component_wear, history, ticks, uuid_next, now, dblock,
                   sim_pc>>

\* update_stock: the membership test and the read of self.stock[part_name]
StockRead(t) ==
    /\ thr[t].pc = "stock_read"
    /\ thr' = IF thr[t].part_name \in DOMAIN stock
              THEN [thr EXCEPT ![t].pc = "stock_write",
                               ![t].read = stock[thr[t].part_name]]
              ELSE [thr EXCEPT ![t].pc = "commit"]
    /\ UNCHANGED <<events, audit_log, audit_seq, part_requests, stock, telemetry,
                   component_wear, history, ticks, uuid_next, now, resp, dblock,
                   sim_pc>>

\* update_stock: the store of the sum
StockWrite(t) ==
    /\ thr[t].pc = "stock_write"
    /\ stock' = [stock EXCEPT ![thr[t].part_name] = thr[t].read + RestockQty]
    /\ thr' = [thr EXCEPT ![t].pc = "commit"]
    /\ UNCHANGED <<events, audit_log, audit_seq, part_requests, telemetry,
                   component_wear, history, ticks, uuid_next, now, resp, dblock,
                   sim_pc>>

\* the audit INSERT and the commit, which publishes the transaction's rows
\* and gives the lock back
ApproveCommit(t) ==
    /\ thr[t].pc = "commit"
    /\ part_requests' = ApproveUpdate(thr[t].req_id)
    /\ AuditInsert("Owner", "Approved Purchase", thr[t].req_id,
                   <<"Approved order", thr[t].part_name>>)
    /\ dblock' = 0
    /\ thr' = [thr EXCEPT ![t].pc = "respond"]
    /\ UNCHANGED <<events, stock, telemetry, component_wear, history, ticks,
                   uuid_next, now, resp, sim_pc>>

\* the answer, with the count read from the inventory at that moment
ApproveRespond(t) ==
    /\ thr[t].pc = "respond"
    /\ resp' = [op |-> "approve", code |-> 200, req_id |-> thr[t].req_id,
                new_stock |-> StockGet(stock, thr[t].part_name)]
    /\ thr' = [thr EXCEPT ![t] = [IdleThread EXCEPT !.ok = thr[t].ok + 1,
                                                     !.failed = thr[t].failed]]
    /\ UNCHANGED <<events, audit_log, audit_seq, part_requests, stock, telemetry,
                   component_wear, history, ticks, uuid_next, now, dblock,
                   sim_pc>>

\* generate_data on the simulator's thread, up to history.append(snapshot)
SimAppend ==
    /\ sim_pc = "idle"
    /\ ticks < HistoryCap + MaxTicks
    /\ \E d \in SpecDraws :
         /\ telemetry' = NextTelemetry(d)
         /\ component_wear' = NextWear(d)
         /\ history' = Append(history, Snapshot(telemetry', component_wear'))
    /\ ticks' = ticks + 1
    /\ sim_pc' = "appended"
    /\ UNCHANGED <<events, audit_log, audit_seq, part_requests, stock, uuid_next,
                   now, resp, thr, dblock>>

\* if len(self.history) > 50: self.history.pop(0), then the sleep
SimEvict ==
    /\ sim_pc = "appended"
    /\ history' = Evict(history)
    /\ sim_pc' = "idle"
    /\ UNCHANGED <<events, audit_log, audit_seq, part_requests, stock, telemetry,
                   component_wear, ticks, uuid_next, now, resp, thr, dblock>>

NextConc ==
    \/ \E t \in Threads :
         \/ ApproveSelect(t)
         \/ ApproveBegin(t)
         \/ ApproveBusy(t)
         \/ StockRead(t)
         \/ StockWrite(t)
         \/ ApproveCommit(t)
         \/ ApproveRespond(t)
    \/ SimAppend
    \/ SimEvict
    \/ GetHistory

SpecConc == InitConc /\ [][NextConc]_vars

Next ==
    \/ Tick
    \/ Analyze
    \/ ResolveEvent
    \/ VerifyFix
    \/ LogDecision
    \/ LogAction
    \/ RequestPart
    \/ ApprovePart

Spec == Init /\ [][Next]_vars


\* ------------------------------------------------------------ properties

IsEventId(id) == \E i \in 1..Len(events) : events[i].id = id
IsRequestId(id) == \E i \in 1..Len(part_requests) : part_requests[i].id = id

\* the log after the step is the log before it plus one entry with this
\* action and linked id
OneAuditAppended(action, linked) ==
    /\ Len(audit_log') = Len(audit_log) + 1
    /\ SubSeq(audit_log', 1, Len(audit_log)) = audit_log
    /\ audit_log'[Len(audit_log')].action = action
    /\ audit_log'[Len(audit_log')].event_id = linked

\* C1: an event is created active, its status changes only from active to
\* resolved and only by a resolve of that event, and a resolved event stays
\* resolved under every operation; events are never removed.
C1_StatusMachine ==
    [][/\ Len(events') >= Len(events)
       /\ \A i \in 1..Len(events') :
            IF i > Len(events)
            THEN /\ events'[i].status = "active"
                 /\ resp'.op = "analyze"
            ELSE /\ events'[i].id = events[i].id
                 /\ events[i].status = "resolved" => events'[i].status = "resolved"
                 /\ events'[i].status # events[i].status =>
                        /\ events[i].status = "active"
                        /\ events'[i].status = "resolved"
                        /\ resp'.op = "resolve"
                        /\ resp'.event_id = events[i].id]_vars

\* C1 witness: a decision has just been recorded on a resolved event
C1_Witness ==
    /\ resp.op = "decisions"
    /\ \E i \in 1..Len(events) :
         /\ events[i].id = resp.event_id
         /\ events[i].status = "resolved"
         /\ events[i].owner_decision # None

\* what C2 says of the call that has just returned
C2_Effect ==
    /\ Len(events') = Len(events) + 1
    /\ SubSeq(events', 1, Len(events)) = events
    /\ LET e == events'[Len(events')]
       IN  /\ ~IsEventId(e.id)
           /\ ~IsRequestId(e.id)
           /\ e.status = "active"
           /\ e.resolution_notes = ""
           /\ e.severity.num * SeverityDivisor = e.urgency_score * e.severity.den
           /\ OneAuditAppended("Ran Diagnostic Scan", e.id)
           /\ audit_log'[Len(audit_log')].role = "Technician"

\* C2: every POST analyze creates exactly one new active event with a fresh
\* id, empty notes and severity = urgency_score/10, plus exactly one linked
\* "Ran Diagnostic Scan" audit entry of the Technician, and nothing else.
C2_EveryAnalyzeCreates ==
    [][resp'.op = "analyze" => C2_Effect]_vars

\* C2, restricted to the calls that answer 201
C2_CreatedEvent ==
    [][resp'.op = "analyze" /\ resp'.code = 201 => C2_Effect]_vars

\* C3: resolve of an existing event answers success, leaves that event
\* resolved with the notes of this call and otherwise as it was, leaves
\* every other event as it was, and appends one linked "Resolved Issue" entry.
C3_Resolve ==
    [][resp'.op = "resolve" /\ IsEventId(resp'.event_id) =>
         /\ resp'.code = 200
         /\ Len(events') = Len(events)
         /\ \A i \in 1..Len(events) :
              events'[i] = IF events[i].id = resp'.event_id
                           THEN [events[i] EXCEPT !.status = "resolved",
                                                  !.resolution_notes = resp'.notes]
                           ELSE events[i]
         /\ OneAuditAppended("Resolved Issue", resp'.event_id)]_vars

\* C3 witness: a second resolve has overwritten the notes of the first
C3_Witness ==
    /\ resp.op = "resolve"
    /\ \E i \in 1..Len(events), k \in 1..Len(audit_log) :
         /\ events[i].id = resp.event_id
         /\ events[i].status = "resolved"
         /\ events[i].resolution_notes = resp.notes
         /\ k < Len(audit_log)
         /\ audit_log[k].action = "Resolved Issue"
         /\ audit_log[k].event_id = resp.event_id
         /\ audit_log[k].details # resp.notes

\* C4: resolve of an id that names no event answers success and leaves the
\* ledger as it was: no event is added and none changes.
C4_ResolveUnknown ==
    [][resp'.op = "resolve" /\ ~IsEventId(resp'.event_id) =>
         /\ resp'.code = 200
         /\ events' = events]_vars

\* C4 witness: an unknown id has just been resolved while an active event exists
C4_Witness ==
    /\ resp.op = "resolve"
    /\ resp.code = 200
    /\ ~IsEventId(resp.event_id)
    /\ \E i \in 1..Len(events) : events[i].status = "active"

\* the request row a request id names, before the step
RequestOf(id) == part_requests[CHOOSE i \in 1..Len(part_requests) :
                                  part_requests[i].id = id]

\* the request table after the step differs from the one before it only in
\* the status of the request id, which is approved
OnlyApproved(id) ==
    /\ Len(part_requests') = Len(part_requests)
    /\ \A i \in 1..Len(part_requests) :
         part_requests'[i] = IF part_requests[i].id = id
                             THEN [part_requests[i] EXCEPT !.status = "approved"]
                             ELSE part_requests[i]

\* C5: approve of a pending request for a tracked part adds exactly 5 to
\* that part's stock and to no other, sets the request approved, appends one
\* linked "Approved Purchase" entry and returns the stock after the increment.
C5_ApproveTracked ==
    [][/\ resp'.op = "approve"
       /\ IsRequestId(resp'.req_id)
       /\ RequestOf(resp'.req_id).status = "pending"
       /\ RequestOf(resp'.req_id).part_name \in DOMAIN stock
       => LET part == RequestOf(resp'.req_id).part_name
          IN  /\ resp'.code = 200
              /\ DOMAIN stock' = DOMAIN stock
              /\ \A p \in DOMAIN stock :
                   stock'[p] = IF p = part THEN stock[p] + 5 ELSE stock[p]
              /\ OnlyApproved(resp'.req_id)
              /\ OneAuditAppended("Approved Purchase", resp'.req_id)
              /\ resp'.new_stock = Some(stock[part] + 5)
              /\ resp'.new_stock = Some(stock'[part])]_vars

\* C5 witness: the first approval of a Hydraulic Filter request returned 17
C5_Witness ==
    /\ resp.op = "approve"
    /\ resp.code = 200
    /\ resp.new_stock = Some(17)
    /\ stock["Hydraulic Filter"] = 17
    /\ RequestOf(resp.req_id).part_name = "Hydraulic Filter"
    /\ RequestOf(resp.req_id).status = "approved"

\* C6: approve of an id that names no part request answers 404 and changes
\* no part request, no stock count and no audit entry.
C6_ApproveUnknown ==
    [][resp'.op = "approve" /\ ~IsRequestId(resp'.req_id) =>
         /\ resp'.code = 404
         /\ part_requests' = part_requests
         /\ stock' = stock
         /\ audit_log' = audit_log
         /\ events' = events]_vars

\* C6 witness: an unknown id was refused while a pending request exists
C6_Witness ==
    /\ resp.op = "approve"
    /\ resp.code = 404
    /\ ~IsRequestId(resp.req_id)
    /\ \E i \in 1..Len(part_requests) : part_requests[i].status = "pending"

\* C7: approve of a request whose part is not tracked answers success, sets
\* the request approved, appends the "Approved Purchase" entry, leaves every
\* count and the set of tracked names as they were and reports no stock level.
C7_ApproveUntracked ==
    [][/\ resp'.op = "approve"
       /\ IsRequestId(resp'.req_id)
       /\ RequestOf(resp'.req_id).part_name \notin DOMAIN stock
       => /\ resp'.code = 200
          /\ OnlyApproved(resp'.req_id)
          /\ OneAuditAppended("Approved Purchase", resp'.req_id)
          /\ DOMAIN stock' = DOMAIN stock
          /\ stock' = stock
          /\ resp'.new_stock = None]_vars

\* C7 witness: a request for an untracked part has just been approved
C7_Witness ==
    /\ resp.op = "approve"
    /\ resp.code = 200
    /\ resp.new_stock = None
    /\ RequestOf(resp.req_id).part_name \notin DOMAIN stock
    /\ RequestOf(resp.req_id).status = "approved"

\* C8: approve of a request that is already approved succeeds, leaves it
\* approved and adds 5 to a tracked part's stock once more, so that every
\* further approval of the same request is worth another 5.
C8_Replay ==
    [][/\ resp'.op = "approve"
       /\ IsRequestId(resp'.req_id)
       /\ RequestOf(resp'.req_id).status = "approved"
       => LET part == RequestOf(resp'.req_id).part_name
          IN  /\ resp'.code = 200
              /\ part_requests' = part_requests
              /\ part \in DOMAIN stock =>
                   /\ stock' = [stock EXCEPT ![part] = @ + 5]
                   /\ resp'.new_stock = Some(stock[part] + 5)]_vars

\* C8 witness: one Hydraulic Filter request approved twice, 12 -> 22
C8_Witness ==
    /\ resp.op = "approve"
    /\ resp.code = 200
    /\ Len(part_requests) = 1
    /\ part_requests[1].part_name = "Hydraulic Filter"
    /\ part_requests[1].status = "approved"
    /\ stock["Hydraulic Filter"] = 12 + 2 * 5

\* C9: a part request appears only by requestPart, pending and with a fresh
\* id, and requestPart changes no stock count; a request changes only by an
\* approve of its id, and only from pending to approved; an approved request
\* stays approved; no request is ever removed.
C9_RequestLifecycle ==
    [][/\ Len(part_requests') >= Len(part_requests)
       /\ \A i \in 1..Len(part_requests') :
            IF i > Len(part_requests)
            THEN /\ resp'.op = "request_part"
                 /\ Len(part_requests') = Len(part_requests) + 1
                 /\ part_requests'[i].status = "pending"
                 /\ ~IsRequestId(part_requests'[i].id)
                 /\ ~IsEventId(part_requests'[i].id)
                 /\ stock' = stock
            ELSE /\ part_requests[i].status = "approved" =>
                        part_requests'[i] = part_requests[i]
                 /\ part_requests'[i] # part_requests[i] =>
                        /\ resp'.op = "approve"
                        /\ resp'.req_id = part_requests[i].id
                        /\ part_requests'[i] =
                             [part_requests[i] EXCEPT !.status = "approved"]
       /\ resp'.op \notin {"request_part", "approve"} =>
              part_requests' = part_requests]_vars

\* C9 witness: one request is approved, another is still pending
C9_Witness ==
    /\ resp.op = "approve"
    /\ resp.code = 200
    /\ \E i, j \in 1..Len(part_requests) :
         /\ part_requests[i].id = resp.req_id
         /\ part_requests[i].status = "approved"
         /\ part_requests[j].status = "pending"

\* C10: the audit log only grows at its end: every entry it holds stays as
\* it is, none is removed, and a new entry's sequence id is greater than the
\* id of every entry already there.
C10_AppendOnly ==
    [][/\ Len(audit_log') >= Len(audit_log)
       /\ SubSeq(audit_log', 1, Len(audit_log)) = audit_log
       /\ \A k \in (Len(audit_log) + 1)..Len(audit_log') :
            \A j \in 1..Len(audit_log) : audit_log'[k].id > audit_log[j].id]_vars

\* C10 witness: the log holds entries of three different operations
C10_Witness ==
    /\ Len(audit_log) >= 3
    /\ audit_log[1].action = "Ran Diagnostic Scan"
    /\ audit_log[2].action = "Resolved Issue"
    /\ audit_log[3].action = "Approved Purchase" \/ audit_log[3].action = "Requested Part"
    /\ audit_log[1].id < audit_log[2].id
    /\ audit_log[2].id < audit_log[3].id

\* C19: recordDecision answers success whatever the event's status, sets the
\* owner_decision of that event to the decision of this call and changes
\* nothing else of any event; recordVerification changes no event; each
\* appends exactly one linked audit entry.
C19_DecisionAndVerification ==
    [][/\ resp'.op = "decisions" =>
            /\ resp'.code = 200
            /\ Len(events') = Len(events)
            /\ \A i \in 1..Len(events) :
                 events'[i] = IF events[i].id = resp'.event_id
                              THEN [events[i] EXCEPT
                                      !.owner_decision = Some(resp'.decision)]
                              ELSE events[i]
            /\ OneAuditAppended("Executive Decision", resp'.event_id)
       /\ resp'.op = "verify_fix" =>
            /\ resp'.code = 200
            /\ events' = events
            /\ OneAuditAppended("Protocol Verification", resp'.event_id)]_vars

\* C19 witness: a second decision on an event has replaced the first
C19_Witness ==
    /\ resp.op = "decisions"
    /\ \E i \in 1..Len(events), k \in 1..Len(audit_log) :
         /\ events[i].id = resp.event_id
         /\ events[i].owner_decision = Some(resp.decision)
         /\ k < Len(audit_log)
         /\ audit_log[k].action = "Executive Decision"
         /\ audit_log[k].event_id = resp.event_id
         /\ audit_log[k].details # resp.decision

\* C15: only the simulator's tick writes the telemetry readings and the
\* history buffer: no request handler adds, removes or changes a key or a
\* value of either.
C15_TickSoleWriter ==
    [][resp'.op # "tick" => telemetry' = telemetry /\ history' = history]_vars

DiagnosisTypes == {"Optimal", "Warning", "Critical"}

\* C16: whatever the engine returns, POST analyze does not fail, and every
\* stored event has a type of the diagnosis enum, an urgency_score in 1..10
\* and a severity in [0.1, 1.0].
C16_ShapeEnforced ==
    /\ resp.op = "analyze" => resp.code = 201
    /\ \A i \in 1..Len(events) :
         /\ events[i].type \in DiagnosisTypes
         /\ events[i].urgency_score \in 1..10
         /\ events[i].severity.num * SeverityDivisor >= events[i].severity.den
         /\ events[i].severity.num <= events[i].severity.den

\* C12: after n passes the history holds the snapshots of the last
\* min(n, 50) passes, oldest first: a pass appends its snapshot at the end
\* and, once 50 are held, drops exactly the oldest.  (motor_hours grows by
\* 0.01 in every pass, so it numbers the pass a snapshot was taken in.)
C12_HistoryWindow ==
    [][resp'.op = "tick" =>
         LET last == history'[Len(history')]
         IN  /\ ticks' = ticks + 1
             /\ Len(history') = Min(ticks', 50)
             /\ history' = IF Len(history) < 50 THEN Append(history, last)
                           ELSE Append(Tail(history), last)
             /\ last = Snapshot(telemetry', component_wear')
             /\ \A i \in 1..Len(history') :
                  history'[i].motor_hours =
                      InitTelemetry.motor_hours + ticks' - Len(history') + i]_vars

\* C12 witness: after the 51st pass the first pass's snapshot is gone
C12_Witness ==
    /\ resp.op = "tick"
    /\ ticks = 51
    /\ Len(history) = 50
    /\ history[1].motor_hours = InitTelemetry.motor_hours + 2
    /\ history[50].motor_hours = InitTelemetry.motor_hours + 51

\* C13: in every snapshot a pass generates each stateless channel lies in
\* its range; no wear fraction decreases or exceeds 1.0; the load cycle
\* count does not decrease; brake health does not increase or drop below 0.
C13_Ranges ==
    [][resp'.op = "tick" =>
         LET last == history'[Len(history')]
         IN  /\ \A k \in StatelessChannels :
                  /\ last[k] >= ChannelRange[k][1]
                  /\ last[k] <= ChannelRange[k][2]
             /\ last.vibration_mm_s \in 5..50
             /\ last.temperature_c \in 200..950
             /\ \A c \in DOMAIN component_wear :
                  /\ last[c] >= component_wear[c]
                  /\ last[c] <= 100000
                  /\ Len(history') > 1 => last[c] >= history'[Len(history') - 1][c]
             /\ last.load_cycles >= telemetry.load_cycles
             /\ last.brake_health_pct <= telemetry.brake_health_pct
             /\ last.brake_health_pct >= 0
             /\ Len(history') > 1 =>
                  /\ last.load_cycles >= history'[Len(history') - 1].load_cycles
                  /\ last.brake_health_pct <=
                         history'[Len(history') - 1].brake_health_pct]_vars

\* C13 witness: a pass has capped the bearing wear at 1.0 and the brake at 0
C13_Witness ==
    /\ resp.op = "tick"
    /\ ticks > LateTicks
    /\ component_wear.main_bearing = 100000
    /\ telemetry.brake_health_pct = 0
    /\ history[Len(history)].main_bearing = 100000
    /\ history[Len(history)].vibration_mm_s = 50

\* C17: when the engine is unavailable or its call fails, analyze creates
\* the event of the fallback diagnosis: Warning with urgency 5 when the
\* snapshot's vibration is strictly above 4.0, otherwise (4.0 exactly, or no
\* vibration) Optimal with urgency 1; severity is urgency / 10 (0.5 for
\* vibration 4.5), status is active, and every earlier fallback event of the
\* same snapshot has the same type and urgency.
C17_Fallback ==
    [][(resp'.op = "analyze" /\ resp'.engine = "unavailable") =>
         /\ resp'.code = 201
         /\ LET e == resp'.event
                d == e.raw_telemetry
                high == "vibration_mm_s" \in DOMAIN d /\ d.vibration_mm_s > 40
            IN  /\ e.type = IF high THEN "Warning" ELSE "Optimal"
                /\ e.urgency_score = IF high THEN 5 ELSE 1
                /\ e.severity = IF high THEN [num |-> 1, den |-> 2]
                                ELSE [num |-> 1, den |-> 10]
                /\ e.status = "active"
                /\ events' = Append(events, e)
                /\ \A i \in 1..Len(events) :
                     (events[i].prescription = "mock"
                        /\ events[i].raw_telemetry = d) =>
                       /\ events[i].type = e.type
                       /\ events[i].urgency_score = e.urgency_score]_vars

\* C17 witness: the scenario's snapshot (vibration 4.5, temperature 60) gave
\* a Warning of severity 0.5, after a snapshot with vibration 4.0 gave Optimal
C17_Witness ==
    /\ resp.op = "analyze"
    /\ resp.engine = "unavailable"
    /\ resp.code = 201
    /\ resp.event.raw_telemetry = [vibration_mm_s |-> 45, temperature_c |-> 600]
    /\ resp.event.type = "Warning"
    /\ resp.event.urgency_score = 5
    /\ resp.event.severity = [num |-> 1, den |-> 2]
    /\ resp.event.status = "active"
    /\ Len(events) = 2
    /\ events[1].raw_telemetry = [vibration_mm_s |-> 40, temperature_c |-> 600]
    /\ events[1].type = "Optimal"
    /\ events[1].urgency_score = 1

\* a row matches the filter of a listing call: no filter was given (an
\* empty value counts as none), or the row has the filter's value
MatchesFilter(op, f, r) ==
    \/ f = None
    \/ f[1] = ""
    \/ (IF op = "events" THEN r.status ELSE r.role) = f[1]

\* what the listing a call op with filter f answers must be: at most limit
\* rows of the table, each matching, none of them older than a matching row
\* left out
IsRecentListing(op, f, items, rows, limit) ==
    /\ Len(items) <= limit
    /\ \A k \in 1..Len(items) :
         /\ \E i \in 1..Len(rows) : rows[i].id = items[k].id /\ rows[i] = items[k]
         /\ MatchesFilter(op, f, items[k])
         /\ \A l \in 1..Len(items) : l # k => items[l].id # items[k].id
    /\ \A i \in 1..Len(rows) :
         (/\ MatchesFilter(op, f, rows[i])
          /\ \A k \in 1..Len(items) : items[k].id # rows[i].id) =>
            /\ Len(items) = limit
            /\ \A k \in 1..Len(items) : items[k].timestamp >= rows[i].timestamp

\* C11: GET events returns at most 20 events, all with the status of the
\* filter when one is given, the most recent matching ones, in strictly
\* descending order of timestamp; GET audit_log likewise returns at most 50
\* entries, the most recent matching the role filter, strictly descending.
C11_Listing ==
    [][(resp'.op \in {"events", "audit_log"}) =>
         LET items == resp'.items
         IN  /\ IsRecentListing(resp'.op, resp'.filter, items,
                                IF resp'.op = "events" THEN events' ELSE audit_log',
                                IF resp'.op = "events" THEN 20 ELSE 50)
             /\ \A k \in 1..(Len(items) - 1) :
                  items[k].timestamp > items[k + 1].timestamp]_vars

\* C11, as far as it holds: the same with timestamps that never increase
\* down the list (rows with equal timestamps follow each other in an order
\* the query does not fix)
C11_ListingWithTies ==
    [][(resp'.op \in {"events", "audit_log"}) =>
         LET items == resp'.items
         IN  /\ IsRecentListing(resp'.op, resp'.filter, items,
                                IF resp'.op = "events" THEN events' ELSE audit_log',
                                IF resp'.op = "events" THEN 20 ELSE 50)
             /\ \A k \in 1..(Len(items) - 1) :
                  items[k].timestamp >= items[k + 1].timestamp]_vars

\* C14: when the approve calls that ran on the request threads, in whatever
\* interleaving, have all succeeded, the stock of the part their requests
\* name is its initial stock plus 5 for each of them.
C14_NoLostUpdate ==
    (\A t \in Threads : thr[t].pc = "idle" /\ thr[t].failed = 0) =>
        stock[ConcPart] = 12 + 5 * OkCount(Threads)

\* C14 witness: two threads have each completed one approve
C14_Witness ==
    /\ \A t \in Threads : thr[t].pc = "idle" /\ thr[t].failed = 0
    /\ thr[1].ok = 1
    /\ thr[2].ok = 1
    /\ stock[ConcPart] = 22
    /\ \A i \in 1..Len(part_requests) : part_requests[i].status = "approved"

\* C20: every read of the history by GET history, at any point of the
\* simulator's pass, observes at most 50 entries.
C20_ReaderSeesAtMost50 ==
    resp.op = "history" => Len(resp.items) <= 50

\* the successful approve calls made so far on requests naming part p: each
\* of them, and nothing else, logs one "Approved Purchase" entry for p
ApprovalsOf(p) ==
    Cardinality({i \in 1..Len(audit_log) :
                    /\ audit_log[i].action = "Approved Purchase"
                    /\ audit_log[i].details = <<"Approved order", p>>})

\* C21: in every state reached by operations run one after another, the
\* tracked part names are the three pre-seeded ones, and each part's stock is
\* its initial stock plus 5 for every successful approve made so far on a
\* request naming it (repeated approvals included).
C21_InventoryLedger ==
    LET initial == ("Main Bearing (B-54)" :> 1) @@ ("Hoist Motor" :> 2)
                     @@ ("Hydraulic Filter" :> 12)
    IN  /\ DOMAIN stock = {"Main Bearing (B-54)", "Hoist Motor", "Hydraulic Filter"}
        /\ \A p \in DOMAIN stock : stock[p] = initial[p] + 5 * ApprovalsOf(p)

\* C21 witness: after two approvals for the Hydraulic Filter its stock is
\* 22, and the other two parts are where they started
C21_Witness ==
    /\ ApprovalsOf("Hydraulic Filter") = 2
    /\ stock["Hydraulic Filter"] = 22
    /\ stock["Main Bearing (B-54)"] = 1
    /\ stock["Hoist Motor"] = 2
    /\ resp.op = "approve"
    /\ resp.code = 200

\* C21, its consequence step by step: no count ever decreases, and only a
\* successful approve changes the inventory
C21_OnlyApproveRestocks ==
    [][/\ DOMAIN stock' = DOMAIN stock
       /\ \A p \in DOMAIN stock : stock'[p] >= stock[p]
       /\ ~(resp'.op = "approve" /\ resp'.code = 200) => stock' = stock]_vars
====
